---- MODULE Spec2Model ----
(***************************************************************************)
(* NetStream / StreamManager of core/src/streams.rs as a state machine.    *)
(*                                                                         *)
(* Option<T> is a sequence: <<>> is None and <<x>> is Some(x).             *)
(* Buffer positions are 0-based byte counts as in the source, so the byte  *)
(* at position p of a buffer b is b[p + 1].                                *)
(* Times (dt, stream_time, tag timestamps) are whole milliseconds.         *)
(***************************************************************************)
EXTENDS Integers, Sequences, FiniteSets, TLC

VARIABLES
    data,             \* NetStream -> NetStreamData (the GcCell contents)
    playing_streams,  \* StreamManager.playing_streams (a Vec of NetStream)
    video,            \* the video backend: registered handles and the calls made
    ticked,           \* history: dt of the tick the last step ran on a stream, else -1
    ran,              \* history: the streams whose tick the last step ran, in order
    appended          \* history: NetStream -> number of bytes given to load_buffer

vars == <<data, playing_streams, video, ticked, ran, appended>>

\* ------------------------------------------------------------------ bounds

MaxTags == 3      \* tags the loader delivers after the header
MaxJunkTags == 1  \* tags the loader delivers after a head that is no valid header
MaxChunk == 3     \* bytes one load_buffer call appends at most
MaxDt == 2        \* largest dt a tick is called with
FrameDt == 1      \* the dt of every tick of a steady playback

DtValues == 0 .. MaxDt

None == <<>>
Some(x) == <<x>>

Max(a, b) == IF a >= b THEN a ELSE b

\* `let x = value;` followed by F(x): the value is computed once.
Bind(value, F(_)) == CHOOSE y \in {F(x) : x \in {value}} : TRUE

\* ------------------------------------------------- container wire format

\* The 3-byte signature "FLV" the sniffer compares against.
FlvSignature == <<70, 76, 86>>

\* Signature plus one header byte (the version).
HeaderLen == 4
FlvVersion == 1

TAG_AUDIO == 8
TAG_VIDEO == 9
TAG_SCRIPT == 18
TAG_CORRUPT == 0

FRAME_KEY == 1
FRAME_INTER == 2
FRAME_COMMAND == 5

CODEC_AVC == 7

\* codec ids swf::VideoCodec::from_u8 resolves
KnownCodecs == {2, 3, 4, 5, 6}

NAME_ON_META_DATA == 1
NAME_OTHER == 2

KEY_WIDTH == 1
KEY_HEIGHT == 2
KEY_VIDEOCODECID == 3
KEY_FRAMERATE == 4
KEY_DURATION == 5

\* A tag on the wire: type code, payload size, timestamp, payload.
Tag(type, timestamp, payload) == <<type, Len(payload), timestamp>> \o payload

\* A video payload: frame type and codec id share the first byte.
VideoTag(timestamp, frame_type, codec_id, body) ==
    Tag(TAG_VIDEO, timestamp, <<frame_type * 16 + codec_id>> \o body)

\* A named numeric sub-field of a script object: key and value share a byte.
NumberVar(key, val) == key * 16 + val
\* The same key carrying a value that is not a number.
OtherVar(key) == 128 + key * 16

ScriptTag(timestamp, name, subvars) == Tag(TAG_SCRIPT, timestamp, <<name>> \o subvars)

MetaData(width, height, codec, rate, duration) ==
    << NumberVar(KEY_WIDTH, width), NumberVar(KEY_HEIGHT, height),
       NumberVar(KEY_VIDEOCODECID, codec), NumberVar(KEY_FRAMERATE, rate),
       NumberVar(KEY_DURATION, duration) >>

AudioTag(timestamp) == Tag(TAG_AUDIO, timestamp, <<0>>)

\* ------------------------------------------------------------- flv parser

\* FlvHeader::parse on FlvReader::from_parts(buffer, position).
FlvHeader_parse(buffer, position) ==
    IF Len(buffer) < position + HeaderLen
    THEN [ok |-> FALSE, err |-> "EndOfData"]
    ELSE IF SubSeq(buffer, position + 1, position + 3) # FlvSignature
            \/ buffer[position + 4] # FlvVersion
    THEN [ok |-> FALSE, err |-> "Corrupt"]
    ELSE [ok |-> TRUE, header |-> [version |-> buffer[position + 4]],
          position |-> position + HeaderLen]

\* FlvVideoData from a video payload.
VideoData_parse(payload) ==
    IF Len(payload) < 2
    THEN [kind |-> "Invalid"]
    ELSE LET frame_type == payload[1] \div 16
             codec_id == payload[1] % 16
             body == Tail(payload)
         IN [kind |-> "Video", frame_type |-> frame_type, codec_id |-> codec_id,
             packet |-> IF frame_type = FRAME_COMMAND THEN "CommandFrame"
                        ELSE IF codec_id # CODEC_AVC THEN "Data"
                        ELSE IF body[1] = 0 THEN "AvcSequenceHeader"
                        ELSE IF body[1] = 1 THEN "AvcNalu"
                        ELSE "AvcEndOfSequence",
             data |-> body]

\* FlvScriptData from a script payload: one named variable holding an object.
ScriptData_parse(payload) ==
    IF Len(payload) < 1
    THEN [kind |-> "Invalid"]
    ELSE [kind |-> "Script", name |-> payload[1], subvars |-> Tail(payload)]

\* FlvTag::parse on a reader at `position`; on success the reader is left
\* after the tag (`position` of the result).
FlvTag_parse(buffer, position) ==
    IF Len(buffer) < position + 3
    THEN [ok |-> FALSE, err |-> "EndOfData"]
    ELSE LET type == buffer[position + 1]
             size == buffer[position + 2]
             timestamp == buffer[position + 3]
             payload == SubSeq(buffer, position + 4, position + 3 + size)
         IN IF type = TAG_CORRUPT
            THEN [ok |-> FALSE, err |-> "Corrupt"]
            ELSE IF Len(buffer) < position + 3 + size
            THEN [ok |-> FALSE, err |-> "EndOfData"]
            ELSE [ok |-> TRUE, timestamp |-> timestamp,
                  position |-> position + 3 + size,
                  data |-> IF type = TAG_AUDIO THEN [kind |-> "Audio"]
                           ELSE IF type = TAG_VIDEO THEN VideoData_parse(payload)
                           ELSE IF type = TAG_SCRIPT THEN ScriptData_parse(payload)
                           ELSE [kind |-> "Invalid"]]

\* VideoCodec::from_u8
VideoCodec_from_u8(id) == IF id \in KnownCodecs THEN Some(id) ELSE None

\* ---------------------------------------------------------- video backend

\* A call the backend received. `by` is the stream whose tick made it.
Call(fn, by, handle, codec, body, frame_id, ok) ==
    [fn |-> fn, by |-> by, handle |-> handle, codec |-> codec, data |-> body,
     frame_id |-> frame_id, ok |-> ok]

\* The backend refuses a stream of zero width or height.
RegisterAccepts(size) == size[1] > 0 /\ size[2] > 0

\* The backend fails on frame data it cannot decode (bit 0 of the first data
\* byte) or cannot preload (bit 1).
DecodeAccepts(body) == body = <<>> \/ body[1] % 2 = 0
PreloadAccepts(body) == body = <<>> \/ (body[1] \div 2) % 2 = 0

\* VideoBackend::register_video_stream: Ok(a fresh handle) or Err.
register_video_stream(v, by, num_frames, size, codec) ==
    LET ok == RegisterAccepts(size)
        handle == v.handles + 1
    IN [ok |-> ok,
        handle |-> handle,
        video |-> [handles |-> IF ok THEN handle ELSE v.handles,
                   calls |-> Append(v.calls,
                       Call("register", by, IF ok THEN handle ELSE 0, codec,
                            <<num_frames, size[1], size[2]>>, 0, ok))]]

\* VideoBackend::preload_video_stream_frame
preload_video_stream_frame(v, by, handle, frame) ==
    [video |-> [v EXCEPT !.calls = Append(@,
        Call("preload", by, handle, frame.codec, frame.data, frame.frame_id,
             PreloadAccepts(frame.data)))]]

\* VideoBackend::decode_video_stream_frame: Ok(BitmapInfo) or Err.
decode_video_stream_frame(v, by, handle, frame) ==
    LET ok == DecodeAccepts(frame.data)
    IN [ok |-> ok,
        bitmap_info |-> [handle |-> handle, frame_id |-> frame.frame_id,
                         data |-> frame.data],
        video |-> [v EXCEPT !.calls = Append(@,
            Call("decode", by, handle, frame.codec, frame.data, frame.frame_id, ok))]]

\* ------------------------------------------------------------ NetStream

\* NetStream::new
NewNetStreamData ==
    [buffer |-> <<>>, offset |-> 0, preload_offset |-> 0, stream_type |-> None,
     stream_time |-> 0, last_decoded_bitmap |-> None]

\* VideoArm counting only the frames it handed to the decoder.
VideoArm_CountDecoded(w, v, by, tag, tag_needs_preloading) ==
    LET st == w.stream_type[1]
        video_handle == st.stream
        frame_id == st.frame_id
        codec == VideoCodec_from_u8(tag.data.codec_id)
        decodes == video_handle # None /\ codec # None /\ tag.data.packet = "Data"
        encoded_frame == [codec |-> codec[1], data |-> tag.data.data, frame_id |-> frame_id]
        v1 == IF decodes /\ tag_needs_preloading
              THEN preload_video_stream_frame(v, by, video_handle[1], encoded_frame).video
              ELSE v
        dec == decode_video_stream_frame(v1, by, video_handle[1], encoded_frame)
    IN IF decodes
       THEN [data |-> [w EXCEPT !.last_decoded_bitmap =
                                    IF dec.ok THEN Some(dec.bitmap_info) ELSE @,
                                !.stream_type = Some([st EXCEPT !.frame_id = @ + 1])],
             video |-> dec.video]
       ELSE [data |-> w, video |-> v]

\* VideoArm never advancing the frame counter.
VideoArm_NoIncrement(w, v, by, tag, tag_needs_preloading) ==
    LET st == w.stream_type[1]
        video_handle == st.stream
        codec == VideoCodec_from_u8(tag.data.codec_id)
        decodes == video_handle # None /\ codec # None /\ tag.data.packet = "Data"
        encoded_frame == [codec |-> codec[1], data |-> tag.data.data,
                          frame_id |-> st.frame_id]
        v1 == IF decodes /\ tag_needs_preloading
              THEN preload_video_stream_frame(v, by, video_handle[1], encoded_frame).video
              ELSE v
        dec == decode_video_stream_frame(v1, by, video_handle[1], encoded_frame)
    IN [data |-> IF decodes /\ dec.ok
                 THEN [w EXCEPT !.last_decoded_bitmap = Some(dec.bitmap_info)]
                 ELSE w,
        video |-> IF decodes THEN dec.video ELSE v1]

\* VideoArm handing the codec id to the backend without resolving it.
VideoArm_AnyCodec(w, v, by, tag, tag_needs_preloading) ==
    LET st == w.stream_type[1]
        video_handle == st.stream
        frame_id == st.frame_id
        codec == Some(tag.data.codec_id)
        decodes == video_handle # None /\ codec # None /\ tag.data.packet = "Data"
        encoded_frame == [codec |-> codec[1], data |-> tag.data.data, frame_id |-> frame_id]
        v1 == IF decodes /\ tag_needs_preloading
              THEN preload_video_stream_frame(v, by, video_handle[1], encoded_frame).video
              ELSE v
        dec == decode_video_stream_frame(v1, by, video_handle[1], encoded_frame)
        w1 == IF decodes /\ dec.ok
              THEN [w EXCEPT !.last_decoded_bitmap = Some(dec.bitmap_info)]
              ELSE w
    IN [data |-> [w1 EXCEPT !.stream_type = Some([st EXCEPT !.frame_id = @ + 1])],
        video |-> IF decodes THEN dec.video ELSE v1]

\* VideoArm decoding a frame only when its preload succeeded.
VideoArm_DecodeIfPreloaded(w, v, by, tag, tag_needs_preloading) ==
    LET st == w.stream_type[1]
        video_handle == st.stream
        frame_id == st.frame_id
        codec == VideoCodec_from_u8(tag.data.codec_id)
        preloads == video_handle # None /\ codec # None /\ tag.data.packet = "Data"
        decodes == preloads /\ PreloadAccepts(tag.data.data)
        encoded_frame == [codec |-> codec[1], data |-> tag.data.data, frame_id |-> frame_id]
        v1 == IF preloads /\ tag_needs_preloading
              THEN preload_video_stream_frame(v, by, video_handle[1], encoded_frame).video
              ELSE v
        dec == decode_video_stream_frame(v1, by, video_handle[1], encoded_frame)
        w1 == IF decodes /\ dec.ok
              THEN [w EXCEPT !.last_decoded_bitmap = Some(dec.bitmap_info)]
              ELSE w
    IN [data |-> [w1 EXCEPT !.stream_type = Some([st EXCEPT !.frame_id = @ + 1])],
        video |-> IF decodes THEN dec.video ELSE v1]

\* VideoArm leaving a frame that came before any handle out of the count.
VideoArm_CountsWithHandle(w, v, by, tag, tag_needs_preloading) ==
    LET st == w.stream_type[1]
        video_handle == st.stream
        frame_id == st.frame_id
        codec == VideoCodec_from_u8(tag.data.codec_id)
        decodes == video_handle # None /\ codec # None /\ tag.data.packet = "Data"
        encoded_frame == [codec |-> codec[1], data |-> tag.data.data, frame_id |-> frame_id]
        v1 == IF decodes /\ tag_needs_preloading
              THEN preload_video_stream_frame(v, by, video_handle[1], encoded_frame).video
              ELSE v
        dec == decode_video_stream_frame(v1, by, video_handle[1], encoded_frame)
        w1 == IF decodes /\ dec.ok
              THEN [w EXCEPT !.last_decoded_bitmap = Some(dec.bitmap_info)]
              ELSE w
    IN [data |-> IF video_handle = None THEN w1
                 ELSE [w1 EXCEPT !.stream_type = Some([st EXCEPT !.frame_id = @ + 1])],
        video |-> IF decodes THEN dec.video ELSE v1]

\* The FlvTagData::Video arm of the tag loop.
VideoArm(w, v, by, tag, tag_needs_preloading) ==
    LET st == w.stream_type[1]
        video_handle == st.stream
        frame_id == st.frame_id
        codec == VideoCodec_from_u8(tag.data.codec_id)
        decodes == video_handle # None /\ codec # None /\ tag.data.packet = "Data"
        encoded_frame == [codec |-> codec[1], data |-> tag.data.data, frame_id |-> frame_id]
        v1 == IF decodes /\ tag_needs_preloading
              THEN preload_video_stream_frame(v, by, video_handle[1], encoded_frame).video
              ELSE v
        dec == decode_video_stream_frame(v1, by, video_handle[1], encoded_frame)
        w1 == IF decodes /\ dec.ok
              THEN [w EXCEPT !.last_decoded_bitmap = Some(dec.bitmap_info)]
              ELSE w
    IN [data |-> [w1 EXCEPT !.stream_type = Some([st EXCEPT !.frame_id = @ + 1])],
        video |-> IF decodes THEN dec.video ELSE v1]

\* The value the `for subvar in subvars` loop leaves in the Option for `key`:
\* the last numeric sub-field of that name.
SubvarNumber(subvars, key) ==
    LET hits == {i \in 1 .. Len(subvars) :
                    subvars[i] < 128 /\ subvars[i] \div 16 = key}
    IN IF hits = {} THEN None
       ELSE Some(subvars[CHOOSE i \in hits : \A j \in hits : j <= i] % 16)

\* ScriptArm reading metadata whether or not a stream is registered already.
ScriptArm_AlwaysReads(w, v, by, tag, tag_needs_preloading) ==
    LET st == w.stream_type[1]
        reads == tag.data.name = NAME_ON_META_DATA
        field(key) == IF reads THEN SubvarNumber(tag.data.subvars, key) ELSE None
        width == field(KEY_WIDTH)
        height == field(KEY_HEIGHT)
        video_codec_id == field(KEY_VIDEOCODECID)
        frame_rate == field(KEY_FRAMERATE)
        duration == field(KEY_DURATION)
        complete == width # None /\ height # None /\ video_codec_id # None
                    /\ frame_rate # None /\ duration # None
        video_codec == VideoCodec_from_u8(video_codec_id[1])
        reg == register_video_stream(v, by, frame_rate[1] * duration[1],
                                     <<width[1], height[1]>>, video_codec[1])
    IN IF tag_needs_preloading /\ complete /\ video_codec # None
       THEN [data |-> IF reg.ok
                      THEN [w EXCEPT !.stream_type =
                                Some([st EXCEPT !.stream = Some(reg.handle)])]
                      ELSE w,
             video |-> reg.video]
       ELSE [data |-> w, video |-> v]

\* ScriptArm handing the codec id to the backend without resolving it.
ScriptArm_AnyCodec(w, v, by, tag, tag_needs_preloading) ==
    LET st == w.stream_type[1]
        has_stream_already == st.stream # None
        reads == tag.data.name = NAME_ON_META_DATA /\ ~has_stream_already
        field(key) == IF reads THEN SubvarNumber(tag.data.subvars, key) ELSE None
        width == field(KEY_WIDTH)
        height == field(KEY_HEIGHT)
        video_codec_id == field(KEY_VIDEOCODECID)
        frame_rate == field(KEY_FRAMERATE)
        duration == field(KEY_DURATION)
        complete == width # None /\ height # None /\ video_codec_id # None
                    /\ frame_rate # None /\ duration # None
        reg == register_video_stream(v, by, frame_rate[1] * duration[1],
                                     <<width[1], height[1]>>, video_codec_id[1])
    IN IF tag_needs_preloading /\ complete
       THEN [data |-> IF reg.ok
                      THEN [w EXCEPT !.stream_type =
                                Some([st EXCEPT !.stream = Some(reg.handle)])]
                      ELSE w,
             video |-> reg.video]
       ELSE [data |-> w, video |-> v]

\* The FlvTagData::Script arm of the tag loop.
ScriptArm(w, v, by, tag, tag_needs_preloading) ==
    LET st == w.stream_type[1]
        has_stream_already == st.stream # None
        reads == tag.data.name = NAME_ON_META_DATA /\ ~has_stream_already
        field(key) == IF reads THEN SubvarNumber(tag.data.subvars, key) ELSE None
        width == field(KEY_WIDTH)
        height == field(KEY_HEIGHT)
        video_codec_id == field(KEY_VIDEOCODECID)
        frame_rate == field(KEY_FRAMERATE)
        duration == field(KEY_DURATION)
        complete == width # None /\ height # None /\ video_codec_id # None
                    /\ frame_rate # None /\ duration # None
        video_codec == VideoCodec_from_u8(video_codec_id[1])
        reg == register_video_stream(v, by, frame_rate[1] * duration[1],
                                     <<width[1], height[1]>>, video_codec[1])
    IN IF tag_needs_preloading /\ complete /\ video_codec # None
       THEN [data |-> IF reg.ok
                      THEN [w EXCEPT !.stream_type =
                                Some([st EXCEPT !.stream = Some(reg.handle)])]
                      ELSE w,
             video |-> reg.video]
       ELSE [data |-> w, video |-> v]

\* `match tag.data` of the tag loop.
Dispatch(w, v, by, tag, tag_needs_preloading) ==
    IF tag.data.kind = "Video" THEN VideoArm(w, v, by, tag, tag_needs_preloading)
    ELSE IF tag.data.kind = "Script" THEN ScriptArm(w, v, by, tag, tag_needs_preloading)
    ELSE [data |-> w, video |-> v]

\* AdvanceCursors taking the reader position as relative to the old offset.
AdvanceCursors_Relative(w, position) ==
    [w EXCEPT !.offset = position,
              !.preload_offset = position - w.offset]

\* AdvanceCursors moving offset and leaving the high-water mark behind.
AdvanceCursors_OffsetOnly(w, position) ==
    [w EXCEPT !.offset = position]

\* After the match: the cursors move past the tag.
AdvanceCursors(w, position) ==
    [w EXCEPT !.offset = position,
              !.preload_offset = Max(position, w.preload_offset)]

\* AtHorizon letting through the tag whose timestamp equals the horizon.
AtHorizon_Strict(timestamp, end_time) == timestamp > end_time

\* Whether the loop stops at a parsed tag because of the time horizon.
AtHorizon(timestamp, end_time) == timestamp >= end_time

\* tag_needs_preloading
NeedsPreloading(position, preload_offset) == position >= preload_offset

\* The horizon branch without skip_back: the reader position after the tag is
\* written back.
Deferred_Consumed(w, v, tag) == [data |-> AdvanceCursors(w, tag.position), video |-> v]

\* The horizon branch: skip_back and break, with nothing written back.
Deferred(w, v, tag) == [data |-> w, video |-> v]

\* The Err branch stopping the stream for good on an error other than
\* EndOfData: the format is dropped and the failure sentinel recorded.
ParseFailed_Disables(w, v, tag) ==
    [data |-> IF tag.err = "EndOfData" THEN w
              ELSE [w EXCEPT !.stream_type = None, !.offset = 0, !.preload_offset = 3],
     video |-> v]

\* The Err branch of the tag parse: the error is logged unless it is
\* EndOfData, and the loop breaks with nothing written back.
ParseFailed(w, v, tag) == [data |-> w, video |-> v]

RECURSIVE TagLoop(_, _, _, _, _)

\* The loop breaking at a tag whose data is invalid, as it does at a tag that
\* does not parse.
TagLoop_StopsAtInvalid(w, v, by, reader, end_time) ==
    LET body(tag) ==
            IF ~tag.ok THEN ParseFailed(w, v, tag)
            ELSE IF AtHorizon(tag.timestamp, end_time) THEN Deferred(w, v, tag)
            ELSE IF tag.data.kind = "Invalid" THEN [data |-> w, video |-> v]
            ELSE LET tag_needs_preloading ==
                         NeedsPreloading(tag.position, w.preload_offset)
                     rest(r) == TagLoop(AdvanceCursors(r.data, tag.position), r.video,
                                        by, tag.position, end_time)
                 IN Bind(Dispatch(w, v, by, tag, tag_needs_preloading), rest)
    IN Bind(FlvTag_parse(w.buffer, reader), body)

\* The `loop` of NetStream::tick with the reader at `reader`.
TagLoop(w, v, by, reader, end_time) ==
    LET body(tag) ==
            IF ~tag.ok THEN ParseFailed(w, v, tag)
            ELSE IF AtHorizon(tag.timestamp, end_time) THEN Deferred(w, v, tag)
            ELSE LET tag_needs_preloading ==
                         NeedsPreloading(tag.position, w.preload_offset)
                     rest(r) == TagLoop(AdvanceCursors(r.data, tag.position), r.video,
                                        by, tag.position, end_time)
                 IN Bind(Dispatch(w, v, by, tag, tag_needs_preloading), rest)
    IN Bind(FlvTag_parse(w.buffer, reader), body)

\* Sniff with the failure sentinel forgotten: a wrong signature or a corrupt
\* header returns without recording anything.
Sniff_NoSentinel(w) ==
    IF w.stream_type # None THEN [go |-> TRUE, data |-> w]
    ELSE IF w.preload_offset > 0 THEN [go |-> FALSE, data |-> w]
    ELSE IF Len(w.buffer) < 3 THEN [go |-> FALSE, data |-> w]
    ELSE IF SubSeq(w.buffer, 1, 3) # FlvSignature
    THEN [go |-> FALSE, data |-> w]
    ELSE LET h == FlvHeader_parse(w.buffer, w.offset)
         IN IF h.ok
            THEN [go |-> TRUE,
                  data |-> [w EXCEPT !.offset = h.position,
                                     !.preload_offset = h.position,
                                     !.stream_type = Some([header |-> h.header,
                                                           stream |-> None,
                                                           frame_id |-> 0])]]
            ELSE [go |-> FALSE, data |-> w]

\* Sniff taking a header that is not complete yet for a corrupt one.
Sniff_EndOfDataFails(w) ==
    IF w.stream_type # None THEN [go |-> TRUE, data |-> w]
    ELSE IF w.preload_offset > 0 THEN [go |-> FALSE, data |-> w]
    ELSE IF Len(w.buffer) < 3 THEN [go |-> FALSE, data |-> w]
    ELSE IF SubSeq(w.buffer, 1, 3) # FlvSignature
    THEN [go |-> FALSE, data |-> [w EXCEPT !.preload_offset = 3]]
    ELSE LET h == FlvHeader_parse(w.buffer, w.offset)
         IN IF h.ok
            THEN [go |-> TRUE,
                  data |-> [w EXCEPT !.offset = h.position,
                                     !.preload_offset = h.position,
                                     !.stream_type = Some([header |-> h.header,
                                                           stream |-> None,
                                                           frame_id |-> 0])]]
            ELSE [go |-> FALSE, data |-> [w EXCEPT !.preload_offset = 3]]

\* Sniff moving offset past the header but not preload_offset.
Sniff_KeepsPreload(w) ==
    IF w.stream_type # None THEN [go |-> TRUE, data |-> w]
    ELSE IF w.preload_offset > 0 THEN [go |-> FALSE, data |-> w]
    ELSE IF Len(w.buffer) < 3 THEN [go |-> FALSE, data |-> w]
    ELSE IF SubSeq(w.buffer, 1, 3) # FlvSignature
    THEN [go |-> FALSE, data |-> [w EXCEPT !.preload_offset = 3]]
    ELSE LET h == FlvHeader_parse(w.buffer, w.offset)
         IN IF h.ok
            THEN [go |-> TRUE,
                  data |-> [w EXCEPT !.offset = h.position,
                                     !.stream_type = Some([header |-> h.header,
                                                           stream |-> None,
                                                           frame_id |-> 0])]]
            ELSE IF h.err = "EndOfData" THEN [go |-> FALSE, data |-> w]
            ELSE [go |-> FALSE, data |-> [w EXCEPT !.preload_offset = 3]]

\* The sniffing block of NetStream::tick. `go` says whether tick goes on to
\* the tag loop or has returned.
Sniff(w) ==
    IF w.stream_type # None THEN [go |-> TRUE, data |-> w]
    ELSE IF w.preload_offset > 0 THEN [go |-> FALSE, data |-> w]
    ELSE IF Len(w.buffer) < 3 THEN [go |-> FALSE, data |-> w]
    ELSE IF SubSeq(w.buffer, 1, 3) # FlvSignature
    THEN [go |-> FALSE, data |-> [w EXCEPT !.preload_offset = 3]]
    ELSE LET h == FlvHeader_parse(w.buffer, w.offset)
         IN IF h.ok
            THEN [go |-> TRUE,
                  data |-> [w EXCEPT !.offset = h.position,
                                     !.preload_offset = h.position,
                                     !.stream_type = Some([header |-> h.header,
                                                           stream |-> None,
                                                           frame_id |-> 0])]]
            ELSE IF h.err = "EndOfData" THEN [go |-> FALSE, data |-> w]
            ELSE [go |-> FALSE, data |-> [w EXCEPT !.preload_offset = 3]]

\* The time horizon of a tick.
EndTime(w, dt) == w.stream_time + dt

\* NetStream::tick as a function of the stream, the backend and dt.
Tick(w, v, by, dt) ==
    LET loop(s) == IF ~s.go THEN [data |-> s.data, video |-> v]
                   ELSE TagLoop(s.data, v, by, s.data.offset, EndTime(w, dt))
    IN Bind(Sniff(w), loop)

\* ------------------------------------------------------- StreamManager

Contains(seq, x) == \E i \in 1 .. Len(seq) : seq[i] = x

\* iter().position(|x| *x == stream) followed by Vec::remove(index)
RemoveFirst(seq, x) ==
    LET index == CHOOSE i \in 1 .. Len(seq) :
                     seq[i] = x /\ \A j \in 1 .. i - 1 : seq[j] # x
    IN SubSeq(seq, 1, index - 1) \o SubSeq(seq, index + 1, Len(seq))

\* ensure_playing pushing the stream whether or not it is present.
ensure_playing_Always(playing, stream) == Append(playing, stream)

\* StreamManager::ensure_playing
ensure_playing(playing, stream) ==
    IF ~Contains(playing, stream) THEN Append(playing, stream) ELSE playing

\* StreamManager::ensure_paused
ensure_paused(playing, stream) ==
    IF Contains(playing, stream) THEN RemoveFirst(playing, stream) ELSE playing

\* StreamManager::toggle_paused
toggle_paused(playing, stream) ==
    IF Contains(playing, stream) THEN RemoveFirst(playing, stream)
    ELSE Append(playing, stream)

RECURSIVE TickAll(_, _, _, _, _, _)

\* The loop leaving out the last stream of the cloned list.
TickAll_StopsEarly(streams, i, d, v, dt, done) ==
    IF i >= Len(streams) THEN [data |-> d, video |-> v, ran |-> done]
    ELSE LET rest(r) == TickAll(streams, i + 1, [d EXCEPT ![streams[i]] = r.data],
                                r.video, dt, Append(done, streams[i]))
         IN Bind(Tick(d[streams[i]], v, streams[i], dt), rest)

\* The `for stream in streams` loop of StreamManager::tick over the cloned
\* list, from its i-th member on; `done` lists the streams ticked so far.
TickAll(streams, i, d, v, dt, done) ==
    IF i > Len(streams) THEN [data |-> d, video |-> v, ran |-> done]
    ELSE LET rest(r) == TickAll(streams, i + 1, [d EXCEPT ![streams[i]] = r.data],
                                r.video, dt, Append(done, streams[i]))
         IN Bind(Tick(d[streams[i]], v, streams[i], dt), rest)

\* ----------------------------------------------------------- the loader

\* What the loader can deliver: a head (a header, possibly with a wrong
\* signature or a wrong version) followed by up to MaxTags tags.
Heads == { FlvSignature \o <<FlvVersion>>,
           <<70, 76, 70, FlvVersion>>,
           FlvSignature \o <<0>> }

GoodFrame == <<4>>
UndecodableFrame == <<5>>
UnpreloadableFrame == <<6>>

\* The tags the loader draws from: two different complete metadata records,
\* a frame due at once, a frame and an audio tag due one millisecond later.
TagAlphabet ==
    { ScriptTag(0, NAME_ON_META_DATA, MetaData(1, 1, 2, 1, 2)),
      ScriptTag(0, NAME_ON_META_DATA, MetaData(2, 1, 3, 1, 3)),
      VideoTag(0, FRAME_KEY, 2, GoodFrame),
      VideoTag(1, FRAME_INTER, 2, GoodFrame),
      AudioTag(1) }

\* The tags of the video arm: every way a video tag is decoded or skipped.
VideoAlphabet ==
    { ScriptTag(0, NAME_ON_META_DATA, MetaData(1, 1, 2, 1, 2)),
      VideoTag(0, FRAME_KEY, 2, GoodFrame),
      VideoTag(0, FRAME_INTER, 2, UndecodableFrame),
      VideoTag(1, FRAME_KEY, 9, GoodFrame),
      VideoTag(0, FRAME_COMMAND, 2, <<0>>) }

\* The tags of the script arm: metadata the backend accepts, metadata it
\* refuses (zero width), metadata naming an unknown codec, and a frame.
MetaAlphabet ==
    { ScriptTag(0, NAME_ON_META_DATA, MetaData(1, 1, 2, 1, 2)),
      ScriptTag(0, NAME_ON_META_DATA, MetaData(2, 1, 3, 1, 3)),
      ScriptTag(0, NAME_ON_META_DATA, MetaData(0, 1, 2, 1, 2)),
      ScriptTag(0, NAME_ON_META_DATA, MetaData(1, 1, 9, 1, 2)),
      VideoTag(0, FRAME_KEY, 2, GoodFrame) }

\* The tags that fail: a tag the parser rejects, a video tag cut short (invalid
\* tag data), metadata the backend refuses, a frame that cannot be decoded and
\* a frame of an unknown codec, next to metadata the backend accepts.
ErrAlphabet ==
    { Tag(TAG_CORRUPT, 0, <<>>),
      Tag(TAG_VIDEO, 0, <<FRAME_KEY * 16 + 2>>),
      ScriptTag(0, NAME_ON_META_DATA, MetaData(1, 1, 2, 1, 2)),
      ScriptTag(0, NAME_ON_META_DATA, MetaData(0, 1, 2, 1, 2)),
      VideoTag(0, FRAME_INTER, 2, UndecodableFrame),
      VideoTag(0, FRAME_KEY, 9, GoodFrame) }

\* Two whole files: a frame and a later audio tag; metadata and a frame.
SchedFiles ==
    { FlvSignature \o <<FlvVersion>> \o VideoTag(0, FRAME_KEY, 2, GoodFrame)
          \o AudioTag(1),
      FlvSignature \o <<FlvVersion>>
          \o ScriptTag(0, NAME_ON_META_DATA, MetaData(1, 1, 2, 1, 2))
          \o VideoTag(0, FRAME_KEY, 2, GoodFrame) }

\* The tags of the decode protocol: metadata, then frames the backend
\* preloads and decodes, decodes but cannot preload, or cannot decode.
DecodeAlphabet ==
    { ScriptTag(0, NAME_ON_META_DATA, MetaData(1, 1, 2, 1, 2)),
      VideoTag(0, FRAME_KEY, 2, GoodFrame),
      VideoTag(0, FRAME_INTER, 2, UnpreloadableFrame),
      VideoTag(0, FRAME_INTER, 2, UndecodableFrame),
      VideoTag(1, FRAME_INTER, 3, GoodFrame) }

\* The metadata records: one the backend accepts, one whose duration is not a
\* number, one under another name, one the backend refuses (zero width) and
\* one naming an unknown codec.
RegAlphabet ==
    { ScriptTag(0, NAME_ON_META_DATA, MetaData(1, 1, 2, 1, 2)),
      ScriptTag(0, NAME_ON_META_DATA,
                <<NumberVar(KEY_WIDTH, 1), NumberVar(KEY_HEIGHT, 1),
                  NumberVar(KEY_VIDEOCODECID, 2), NumberVar(KEY_FRAMERATE, 1),
                  OtherVar(KEY_DURATION)>>),
      ScriptTag(0, NAME_OTHER, MetaData(1, 1, 2, 1, 2)),
      ScriptTag(0, NAME_ON_META_DATA, MetaData(0, 1, 2, 1, 2)),
      ScriptTag(1, NAME_ON_META_DATA, MetaData(1, 1, 9, 1, 2)) }

IsPrefix(p, q) == Len(p) <= Len(q) /\ SubSeq(q, 1, Len(p)) = p

\* The bytes that can follow `rest`, the delivered bytes after the head,
\* when `n` more tags may be delivered.
RECURSIVE NextTagBytes(_, _, _)
NextTagBytes(alphabet, rest, n) ==
    IF n = 0 THEN {}
    ELSE IF Len(rest) >= 2 /\ Len(rest) >= 3 + rest[2]
    THEN NextTagBytes(alphabet, SubSeq(rest, 4 + rest[2], Len(rest)), n - 1)
    ELSE { t[Len(rest) + 1] : t \in { u \in alphabet : IsPrefix(rest, u) } }

\* The bytes the loader can deliver next after `buffer`.
NextBytes(alphabet, buffer) ==
    IF Len(buffer) < HeaderLen
    THEN { h[Len(buffer) + 1] : h \in { g \in Heads : IsPrefix(buffer, g) } }
    ELSE NextTagBytes(alphabet, SubSeq(buffer, HeaderLen + 1, Len(buffer)),
                      IF FlvHeader_parse(buffer, 0).ok THEN MaxTags ELSE MaxJunkTags)

\* The chunks of exactly n bytes the loader can deliver after `buffer`.
RECURSIVE Chunks(_, _, _)
Chunks(alphabet, buffer, n) ==
    IF n = 0 THEN { <<>> }
    ELSE UNION { { <<b>> \o c : c \in Chunks(alphabet, Append(buffer, b), n - 1) } :
                 b \in NextBytes(alphabet, buffer) }

\* -------------------------------------------------------------- actions

Streams == DOMAIN data

NotTicked == [s \in Streams |-> -1]

InitWith(streams) ==
    /\ data = [s \in streams |-> NewNetStreamData]
    /\ playing_streams = <<>>
    /\ video = [handles |-> 0, calls |-> <<>>]
    /\ ticked = [s \in streams |-> -1]
    /\ ran = <<>>
    /\ appended = [s \in streams |-> 0]

\* The streams created: one NetStream.
StreamIds == {1}

Init == InitWith(StreamIds)

\* NetStream::bytes_loaded
bytes_loaded(w) == Len(w.buffer)

\* NetStream::bytes_total
bytes_total(w) == Len(w.buffer)

\* load_buffer replacing the buffer by the new bytes.
load_buffer_Replaces(s, bytes) ==
    /\ data' = [data EXCEPT ![s].buffer = bytes]
    /\ appended' = [appended EXCEPT ![s] = @ + Len(bytes)]
    /\ ticked' = NotTicked
    /\ ran' = <<>>
    /\ UNCHANGED <<playing_streams, video>>

\* NetStream::load_buffer
load_buffer(s, bytes) ==
    /\ data' = [data EXCEPT ![s].buffer = @ \o bytes]
    /\ appended' = [appended EXCEPT ![s] = @ + Len(bytes)]
    /\ ticked' = NotTicked
    /\ ran' = <<>>
    /\ UNCHANGED <<playing_streams, video>>

\* The loader appending the next chunk of a file made of tags of `alphabet`.
Load(alphabet) ==
    \E s \in Streams, n \in 0 .. MaxChunk :
        \E bytes \in Chunks(alphabet, data[s].buffer, n) : load_buffer(s, bytes)

LoadBuffer == Load(TagAlphabet)

LoadVideoBuffer == Load(VideoAlphabet)

LoadMetaBuffer == Load(MetaAlphabet)

LoadErrBuffer == Load(ErrAlphabet)

LoadDecodeBuffer == Load(DecodeAlphabet)

LoadRegBuffer == Load(RegAlphabet)

\* The loader delivering a whole file to an empty stream in one call.
LoadFile ==
    \E s \in Streams, file \in SchedFiles :
        /\ data[s].buffer = <<>>
        /\ load_buffer(s, file)

\* NetStream::play
Play ==
    \E s \in Streams :
        /\ playing_streams' = ensure_playing(playing_streams, s)
        /\ ticked' = NotTicked
        /\ ran' = <<>>
        /\ UNCHANGED <<data, video, appended>>

\* pause that also rewinds the stream to the start of its buffer.
Pause_Rewinds ==
    \E s \in Streams :
        /\ playing_streams' = ensure_paused(playing_streams, s)
        /\ data' = [data EXCEPT ![s].offset = 0]
        /\ ticked' = NotTicked
        /\ ran' = <<>>
        /\ UNCHANGED <<video, appended>>

\* NetStream::pause
Pause ==
    \E s \in Streams :
        /\ playing_streams' = ensure_paused(playing_streams, s)
        /\ ticked' = NotTicked
        /\ ran' = <<>>
        /\ UNCHANGED <<data, video, appended>>

\* NetStream::resume
Resume ==
    \E s \in Streams :
        /\ playing_streams' = ensure_playing(playing_streams, s)
        /\ ticked' = NotTicked
        /\ ran' = <<>>
        /\ UNCHANGED <<data, video, appended>>

\* NetStream::toggle_paused
TogglePaused ==
    \E s \in Streams :
        /\ playing_streams' = toggle_paused(playing_streams, s)
        /\ ticked' = NotTicked
        /\ ran' = <<>>
        /\ UNCHANGED <<data, video, appended>>

\* NetStream::tick called on one stream
NetStreamTick ==
    \E s \in Streams, dt \in DtValues :
        LET r == Tick(data[s], video, s, dt)
        IN /\ data' = [data EXCEPT ![s] = r.data]
           /\ video' = r.video
           /\ ticked' = [NotTicked EXCEPT ![s] = dt]
           /\ ran' = <<s>>
           /\ UNCHANGED <<playing_streams, appended>>

\* StreamManager::tick(dt)
StreamManagerTickWith(dt) ==
    LET streams == playing_streams
        r == TickAll(streams, 1, data, video, dt, <<>>)
    IN /\ ran' = r.ran
       /\ data' = r.data
       /\ video' = r.video
       /\ ticked' = [s \in Streams |-> IF Contains(ran', s) THEN dt ELSE -1]
       /\ UNCHANGED <<playing_streams, appended>>

StreamManagerTick == \E dt \in DtValues : StreamManagerTickWith(dt)

Next ==
    \/ LoadBuffer
    \/ Play
    \/ Pause
    \/ Resume
    \/ TogglePaused
    \/ NetStreamTick
    \/ StreamManagerTick

Spec == Init /\ [][Next]_vars

\* The same program fed the tags of the video arm.
NextVideo ==
    \/ LoadVideoBuffer
    \/ Play
    \/ Pause
    \/ Resume
    \/ TogglePaused
    \/ NetStreamTick
    \/ StreamManagerTick

SpecVideo == Init /\ [][NextVideo]_vars

\* The same program fed the tags of the script arm.
NextMeta ==
    \/ LoadMetaBuffer
    \/ Play
    \/ Pause
    \/ Resume
    \/ TogglePaused
    \/ NetStreamTick
    \/ StreamManagerTick

SpecMeta == Init /\ [][NextMeta]_vars

\* The same program fed the tags that fail.
NextErr ==
    \/ LoadErrBuffer
    \/ Play
    \/ Pause
    \/ Resume
    \/ TogglePaused
    \/ NetStreamTick
    \/ StreamManagerTick

SpecErr == Init /\ [][NextErr]_vars

\* The same program fed the tags of the decode protocol.
NextDecode ==
    \/ LoadDecodeBuffer
    \/ Play
    \/ Pause
    \/ Resume
    \/ TogglePaused
    \/ NetStreamTick
    \/ StreamManagerTick

SpecDecode == Init /\ [][NextDecode]_vars

\* The same program fed metadata records only.
NextReg ==
    \/ LoadRegBuffer
    \/ Play
    \/ Pause
    \/ Resume
    \/ TogglePaused
    \/ NetStreamTick
    \/ StreamManagerTick

SpecReg == Init /\ [][NextReg]_vars

\* Two streams under the scheduler: every tick is a StreamManager::tick.
SchedStreamIds == {1, 2}

InitSched == InitWith(SchedStreamIds)

NextSched ==
    \/ LoadFile
    \/ Play
    \/ Pause
    \/ Resume
    \/ TogglePaused
    \/ StreamManagerTick

SpecSched == InitSched /\ [][NextSched]_vars

\* Playback: the player calls StreamManager::tick once per frame with the
\* time elapsed since the last frame, FrameDt, while the loader delivers.
PlaybackTick == StreamManagerTickWith(FrameDt)

NextPlayback ==
    \/ LoadBuffer
    \/ Play
    \/ PlaybackTick

SpecPlayback == Init /\ [][NextPlayback]_vars /\ WF_vars(PlaybackTick)

\* ------------------------------------------------------------ properties

Sniffed(s) == data[s].stream_type # None
Format(s) == data[s].stream_type[1]
CallsBy(s) == SelectSeq(video.calls, LAMBDA c : c.by = s)
CallsOf(s, fn) == SelectSeq(video.calls, LAMBDA c : c.by = s /\ c.fn = fn)

\* The step ran NetStream::tick on s (ticked'[s] is then its dt).
TickOf(s) == ticked'[s] >= 0

\* A buffer the sniffer rejects: three bytes that are not the signature, or
\* the signature followed by a corrupt header.
Rejected(buffer) ==
    /\ Len(buffer) >= 3
    /\ \/ SubSeq(buffer, 1, 3) # FlvSignature
       \/ LET h == FlvHeader_parse(buffer, 0) IN ~h.ok /\ h.err = "Corrupt"

SniffFailed(s) ==
    /\ data[s].stream_type = None
    /\ data[s].preload_offset = 3
    /\ data[s].offset = 0
    /\ CallsBy(s) = <<>>

\* C1: a tick that sees a rejected buffer leaves preload_offset = 3 with the
\* format unset, and from then on every step keeps the format unset, offset 0,
\* preload_offset 3 and the backend uncalled.
C1_StickySniffFailure ==
    [][\A s \in Streams :
          /\ (TickOf(s) /\ ~Sniffed(s) /\ Rejected(data[s].buffer)) => SniffFailed(s)'
          /\ SniffFailed(s) => SniffFailed(s)']_vars

\* A stream whose header was found corrupt, ticked again after a whole tag
\* arrived behind the header.
C1_Witness ==
    \E s \in Streams :
        /\ SniffFailed(s)
        /\ ticked[s] >= 0
        /\ SubSeq(data[s].buffer, 1, 3) = FlvSignature
        /\ Len(data[s].buffer) > HeaderLen
        /\ FlvTag_parse(data[s].buffer, HeaderLen).ok

\* C2: preload_offset of a stream never decreases in any step.
C2_PreloadOffsetMonotonic ==
    [][\A s \in Streams : data'[s].preload_offset >= data[s].preload_offset]_vars

\* A stream whose high-water mark moved past the header and two tags.
C2_Witness ==
    \E s \in Streams :
        /\ Sniffed(s)
        /\ LET first == FlvTag_parse(data[s].buffer, HeaderLen)
           IN first.ok /\ data[s].preload_offset > first.position

\* The video tags among the tags of buffer[from .. to).
RECURSIVE VideoTagsBetween(_, _, _)
VideoTagsBetween(buffer, from, to) ==
    IF from >= to THEN 0
    ELSE LET tag == FlvTag_parse(buffer, from)
         IN IF ~tag.ok THEN 0
            ELSE (IF tag.data.kind = "Video" THEN 1 ELSE 0)
                 + VideoTagsBetween(buffer, tag.position, to)

\* C3: the frame counter of a sniffed stream equals the number of video tags
\* consumed so far, whatever happened to each of them.
C3_FrameCounterCountsVideoTags ==
    \A s \in Streams :
        Sniffed(s) =>
            Format(s).frame_id = VideoTagsBetween(data[s].buffer, HeaderLen, data[s].offset)

\* Two video tags counted of which one was skipped and one failed to decode.
C3_Witness ==
    \E s \in Streams :
        /\ Sniffed(s)
        /\ Format(s).frame_id = 2
        /\ Len(CallsOf(s, "decode")) = 1
        /\ ~CallsOf(s, "decode")[1].ok

\* The registration calls of s: none follows a successful one, and the handle
\* the stream holds is that of the successful one.
RegisteredOnce(s) ==
    LET regs == CallsOf(s, "register")
        last == regs[Len(regs)]
    IN /\ \A i \in 1 .. Len(regs) : regs[i].ok => i = Len(regs)
       /\ ~Sniffed(s) => regs = <<>>
       /\ Sniffed(s) =>
            Format(s).stream = IF regs # <<>> /\ last.ok THEN Some(last.handle) ELSE None

\* C4 as stated: register_video_stream is called at most once for a stream.
C4_CalledAtMostOnce ==
    \A s \in Streams : Len(CallsOf(s, "register")) <= 1 /\ RegisteredOnce(s)

\* C4 as amended: register_video_stream succeeds at most once for a stream and
\* is not called again after it succeeded; the handle stored is the one that
\* call returned, so it is never replaced or cleared.
C4_RegistersAtMostOnce == \A s \in Streams : RegisteredOnce(s)

\* Two different complete metadata records consumed, the first registered,
\* the second causing no call.
C4_Witness ==
    \E s \in Streams :
        /\ Sniffed(s)
        /\ LET first == FlvTag_parse(data[s].buffer, HeaderLen)
               second == FlvTag_parse(data[s].buffer, first.position)
           IN /\ first.ok /\ first.data.kind = "Script"
              /\ first.data.subvars = MetaData(1, 1, 2, 1, 2)
              /\ second.ok /\ second.data.kind = "Script"
              /\ second.data.subvars = MetaData(2, 1, 3, 1, 3)
              /\ data[s].offset >= second.position
        /\ Len(CallsOf(s, "register")) = 1
        /\ Format(s).stream # None

\* C5: the frame ids one handle receives through decode_video_stream_frame,
\* and those it receives through preload_video_stream_frame, strictly increase.
C5_FrameIdsIncrease ==
    \A i, j \in 1 .. Len(video.calls) :
        LET a == video.calls[i]
            b == video.calls[j]
        IN (i < j /\ a.fn = b.fn /\ a.fn \in {"decode", "preload"} /\ a.handle = b.handle)
               => a.frame_id < b.frame_id

\* A handle that received two frames, one of which failed to decode.
C5_Witness ==
    \E s \in Streams :
        /\ Len(CallsOf(s, "decode")) = 2
        /\ Len(CallsOf(s, "preload")) = 2
        /\ \E i \in 1 .. 2 : ~CallsOf(s, "decode")[i].ok

\* The position at which a tick reading from pos stops: the first tag that
\* does not parse or whose timestamp has reached end_time.
RECURSIVE StopPosition(_, _, _)
StopPosition(buffer, pos, end_time) ==
    LET tag == FlvTag_parse(buffer, pos)
    IN IF ~tag.ok \/ tag.timestamp >= end_time THEN pos
       ELSE StopPosition(buffer, tag.position, end_time)

CallsIn(v, s) == SelectSeq(v.calls, LAMBDA c : c.by = s)

\* C6: a tick consumes, in buffer order, the complete tags before the first
\* tag whose timestamp is >= stream_time + dt and stops with offset at the
\* start of that tag; that tag and the tags after it change nothing (the tick
\* ends as it would on the buffer cut at that tag).
C6_HorizonDeferral ==
    [][\A s \in Streams :
          (TickOf(s) /\ Sniff(data[s]).go) =>
              LET dt == ticked'[s]
                  stop == StopPosition(data[s].buffer, Sniff(data[s]).data.offset,
                                       data[s].stream_time + dt)
                  cut == Tick([data[s] EXCEPT !.buffer = SubSeq(@, 1, stop)], video, s, dt)
              IN /\ data'[s].offset = stop
                 /\ data'[s] = [cut.data EXCEPT !.buffer = data[s].buffer]
                 /\ CallsIn(video', s) = CallsIn(cut.video, s)]_vars

\* After tick(1): a tag was consumed, the tag at offset is complete and due at
\* 1, and a complete tag due at 0 sits behind it, unconsumed.
C6_Witness ==
    \E s \in Streams :
        /\ ticked[s] = 1
        /\ Sniffed(s)
        /\ data[s].offset > HeaderLen
        /\ LET deferred == FlvTag_parse(data[s].buffer, data[s].offset)
               behind == FlvTag_parse(data[s].buffer, deferred.position)
           IN /\ deferred.ok /\ deferred.timestamp = 1
              /\ behind.ok /\ behind.timestamp = 0

\* C7: tick(dt1) followed by tick(dt2), dt1 <= dt2, on the same buffer ends in
\* the same stream state with the same backend calls as tick(dt2) alone: a tag
\* deferred by the first tick is consumed by the second as it would have been.
C7_ReplayIdempotence ==
    \A s \in Streams :
        \A dt1, dt2 \in DtValues :
            dt1 <= dt2 =>
                LET first == Tick(data[s], video, s, dt1)
                    replay == Tick(first.data, first.video, s, dt2)
                    direct == Tick(data[s], video, s, dt2)
                IN replay = direct

\* After tick(1) deferred it: a complete video frame due at 1 at offset, with
\* a handle registered, which tick(2) decodes.
C7_Witness ==
    \E s \in Streams :
        /\ ticked[s] = 1
        /\ Sniffed(s)
        /\ Format(s).stream # None
        /\ LET tag == FlvTag_parse(data[s].buffer, data[s].offset)
           IN tag.ok /\ tag.timestamp = 1 /\ tag.data.kind = "Video"
        /\ Len(CallsBy(s)) < Len(CallsIn(Tick(data[s], video, s, 2).video, s))

Playing(s) == Contains(playing_streams, s)

\* buffer[pos ..] is a sequence of complete, well-formed tags.
RECURSIVE CompleteFrom(_, _)
CompleteFrom(buffer, pos) ==
    \/ pos = Len(buffer)
    \/ LET tag == FlvTag_parse(buffer, pos)
       IN tag.ok /\ tag.data.kind # "Invalid" /\ CompleteFrom(buffer, tag.position)

\* A sniffed, playing stream whose unread bytes are complete well-formed tags.
Steady(s) == Sniffed(s) /\ Playing(s) /\ CompleteFrom(data[s].buffer, data[s].offset)

\* C8: a steady stream ticked once per frame with the same dt > 0 eventually
\* has consumed every tag (or stopped being steady).
C8_PlaybackProgresses ==
    \A s \in StreamIds :
        Steady(s) ~> (data[s].offset = Len(data[s].buffer) \/ ~Steady(s))

\* The header of the buffer cannot be parsed yet for lack of bytes.
Incomplete(buffer) ==
    \/ Len(buffer) < 3
    \/ /\ SubSeq(buffer, 1, 3) = FlvSignature
       /\ LET h == FlvHeader_parse(buffer, 0) IN ~h.ok /\ h.err = "EndOfData"

\* C9: a tick on an unsniffed stream with fewer than 3 bytes, or with the
\* signature and an incomplete header, changes neither the stream nor the
\* backend, so the next tick sniffs again.
C9_TransientSniffing ==
    [][\A s \in Streams :
          (TickOf(s) /\ ~Sniffed(s) /\ data[s].preload_offset = 0
               /\ Incomplete(data[s].buffer))
              => /\ data'[s] = data[s]
                 /\ CallsIn(video', s) = CallsIn(video, s)
                 /\ Sniff(data'[s]) = Sniff(data[s])]_vars

\* A stream ticked while it held the signature and nothing else.
C9_Witness ==
    \E s \in Streams :
        /\ ticked[s] >= 0
        /\ data[s].buffer = FlvSignature
        /\ ~Sniffed(s)
        /\ data[s].preload_offset = 0

\* The buffer is a valid header and nothing else.
HeaderOnly(buffer) ==
    LET h == FlvHeader_parse(buffer, 0) IN h.ok /\ h.position = Len(buffer)

\* C10: a tick on an unsniffed stream holding a valid header and no tag bytes
\* sets the format with no handle and frame counter 0 and moves offset and
\* preload_offset to the end of the header; a tick on the sniffed stream
\* with still no tag bytes changes nothing.
C10_SuccessfulSniff ==
    [][\A s \in Streams :
          /\ (TickOf(s) /\ ~Sniffed(s) /\ data[s].preload_offset = 0
                  /\ HeaderOnly(data[s].buffer))
                 => /\ Sniffed(s)'
                    /\ Format(s)'.stream = None
                    /\ Format(s)'.frame_id = 0
                    /\ data'[s].offset = Len(data[s].buffer)
                    /\ data'[s].preload_offset = Len(data[s].buffer)
                    /\ data'[s].buffer = data[s].buffer
                    /\ data'[s].last_decoded_bitmap = data[s].last_decoded_bitmap
                    /\ data'[s].stream_time = data[s].stream_time
                    /\ CallsIn(video', s) = CallsIn(video, s)
          /\ (TickOf(s) /\ Sniffed(s) /\ HeaderOnly(data[s].buffer))
                 => /\ data'[s] = data[s]
                    /\ CallsIn(video', s) = CallsIn(video, s)]_vars

\* A stream ticked while it held a valid header and nothing else.
C10_Witness ==
    \E s \in Streams :
        /\ ticked[s] >= 0
        /\ HeaderOnly(data[s].buffer)
        /\ Sniffed(s)
        /\ data[s].offset = HeaderLen
        /\ data[s].preload_offset = HeaderLen

\* C11: when the tag loop of a tick stops at a tag that cannot be parsed (the
\* bytes run out, or the parser rejects the tag), the stream and the backend
\* are as the tags before it left them: offset and preload_offset at the start
\* of that tag, frame counter, handle and last picture as on the buffer cut
\* there; the format stays set, no failure sentinel is recorded, and another
\* tick, with any dt, attempts the same parse and changes nothing.
C11_ParseFailureLeavesState ==
    [][\A s \in Streams :
          (TickOf(s) /\ Sniff(data[s]).go
              /\ ~FlvTag_parse(data'[s].buffer, data'[s].offset).ok) =>
              LET dt == ticked'[s]
                  before == Tick([data[s] EXCEPT !.buffer = SubSeq(@, 1, data'[s].offset)],
                                 video, s, dt)
              IN /\ data'[s] = [before.data EXCEPT !.buffer = data[s].buffer]
                 /\ CallsIn(video', s) = CallsIn(before.video, s)
                 /\ data'[s].stream_type # None
                 /\ data'[s].preload_offset = data'[s].offset
                 /\ data'[s].offset >= HeaderLen
                 /\ \A again \in DtValues :
                        Tick(data'[s], video', s, again) = [data |-> data'[s], video |-> video']]_vars

\* After a tick: a tag was consumed, the tag at offset is one the parser
\* rejects, and a whole tag lies behind it.
C11_Witness ==
    \E s \in Streams :
        /\ ticked[s] >= 0
        /\ Sniffed(s)
        /\ data[s].offset > HeaderLen
        /\ LET tag == FlvTag_parse(data[s].buffer, data[s].offset)
           IN ~tag.ok /\ tag.err = "Corrupt"
        /\ Len(data[s].buffer) >= data[s].offset + 6

\* The tags parsed from buffer[from ..] up to `to`, in order.
RECURSIVE TagsBetween(_, _, _)
TagsBetween(buffer, from, to) ==
    IF from >= to THEN <<>>
    ELSE LET tag == FlvTag_parse(buffer, from)
         IN IF ~tag.ok THEN <<>>
            ELSE <<tag>> \o TagsBetween(buffer, tag.position, to)

\* C12 as claimed: a tick stops only where the bytes run out or at a tag that
\* is not due yet; every failing tag before that, one the parser rejects
\* included, is skipped and the loop goes on.
C12_EveryFailingTagSkipped ==
    [][\A s \in Streams :
          (TickOf(s) /\ Sniff(data[s]).go) =>
              LET tag == FlvTag_parse(data'[s].buffer, data'[s].offset)
              IN /\ data'[s].stream_type # None
                 /\ \/ ~tag.ok /\ tag.err = "EndOfData"
                    \/ tag.ok /\ tag.timestamp >= data[s].stream_time + ticked'[s]]_vars

\* C12: a tick never disables the stream and never stops at a tag that parses
\* and is due: a tag with invalid data, a frame of an unknown codec, a frame
\* without a registered stream, a frame whose decode fails and metadata whose
\* registration fails are all consumed, and the tags behind them are dispatched
\* in the same tick (every video tag up to the stop is counted). The loop
\* stops only at a tag that does not parse, or at one that is not due.
C12_RecoverableErrorsSkipped ==
    [][\A s \in Streams :
          (TickOf(s) /\ Sniff(data[s]).go) =>
              LET start == Sniff(data[s]).data
                  tag == FlvTag_parse(data'[s].buffer, data'[s].offset)
              IN /\ data'[s].stream_type # None
                 /\ ~tag.ok \/ tag.timestamp >= data[s].stream_time + ticked'[s]
                 /\ Format(s)'.frame_id = start.stream_type[1].frame_id
                        + VideoTagsBetween(data[s].buffer, start.offset, data'[s].offset)]_vars

\* After a tick, three tags are consumed: metadata whose registration the
\* backend refused, a tag with invalid data, and a frame of an unknown codec
\* that was counted with no stream registered.
C12_Witness ==
    \E s \in Streams :
        /\ ticked[s] >= 0
        /\ Sniffed(s)
        /\ LET tags == TagsBetween(data[s].buffer, HeaderLen, data[s].offset)
           IN /\ Len(tags) = 3
              /\ tags[1].data.kind = "Script"
              /\ tags[2].data.kind = "Invalid"
              /\ tags[3].data.kind = "Video"
              /\ VideoCodec_from_u8(tags[3].data.codec_id) = None
        /\ Len(CallsOf(s, "register")) = 1 /\ ~CallsOf(s, "register")[1].ok
        /\ Format(s).stream = None
        /\ Format(s).frame_id = 1

\* How many times x occurs in seq.
Count(seq, x) == Cardinality({i \in 1 .. Len(seq) : seq[i] = x})

\* C13: a StreamManager::tick runs tick once on each stream of the play set
\* as it was when the scheduler tick started, in the order of the play set,
\* and on no other stream; it leaves the play set and every stream outside
\* it as they were.
C13_SchedulerSnapshot ==
    [][(ran' # <<>>) =>
          /\ ran' = playing_streams
          /\ playing_streams' = playing_streams
          /\ \A s \in Streams :
                 /\ Count(ran', s) = IF Playing(s) THEN 1 ELSE 0
                 /\ Playing(s) <=> ticked'[s] >= 0
                 /\ ~Playing(s) => data'[s] = data[s]]_vars

\* The scheduler has just ticked both streams, 2 before 1, and both got past
\* their header.
C13_Witness ==
    /\ ran = <<2, 1>>
    /\ \A s \in SchedStreamIds : ticked[s] >= 1 /\ data[s].offset > HeaderLen

\* The streams of a play set, as a set.
Members(playing) == {playing[i] : i \in 1 .. Len(playing)}

\* C14: the play set holds no stream twice; ensure_playing leaves the stream
\* in it, ensure_paused leaves it out, each changes the membership of no other
\* stream and is idempotent; toggle_paused flips the membership of the stream
\* and two toggles in a row restore the membership.
C14_MembershipIsASet ==
    LET playing == playing_streams
    IN /\ \A s \in Streams : Count(playing, s) <= 1
       /\ \A s \in Streams :
              LET played == ensure_playing(playing, s)
                  paused == ensure_paused(playing, s)
                  toggled == toggle_paused(playing, s)
              IN /\ Members(played) = Members(playing) \cup {s}
                 /\ Count(played, s) = 1
                 /\ ensure_playing(played, s) = played
                 /\ Members(paused) = Members(playing) \ {s}
                 /\ ensure_paused(paused, s) = paused
                 /\ Contains(toggled, s) <=> ~Contains(playing, s)
                 /\ Members(toggled) \ {s} = Members(playing) \ {s}
                 /\ Count(toggled, s) <= 1
                 /\ Members(toggle_paused(toggled, s)) = Members(playing)

\* Both streams are playing, the second one first: stream 1 was paused or
\* toggled out and added again behind stream 2.
C14_Witness == playing_streams = <<2, 1>> /\ ran = <<>>

\* C15: a step that neither loads nor ticks (play, pause, resume,
\* toggle_paused) changes no stream and makes no backend call; the scheduler
\* ticks no stream outside the play set, so a paused stream keeps its buffer,
\* offset, preload_offset, format, play time and last picture until it is
\* resumed.
C15_PausePreservesState ==
    [][/\ (ran' = <<>> /\ appended' = appended) => (data' = data /\ video' = video)
       /\ \A s \in Streams :
              ~Playing(s) =>
                  /\ ticked'[s] < 0
                  /\ appended'[s] = appended[s] => data'[s] = data[s]
                  /\ CallsIn(video', s) = CallsIn(video, s)]_vars

\* Stream 1 was ticked past its header, then paused with a tag still unread;
\* the scheduler has just ticked stream 2 alone with a dt that would have
\* consumed that tag.
C15_Witness ==
    /\ ran = <<2>>
    /\ ticked[2] = MaxDt
    /\ ~Playing(1)
    /\ Sniffed(1)
    /\ data[1].offset > HeaderLen
    /\ LET tag == FlvTag_parse(data[1].buffer, data[1].offset)
       IN tag.ok /\ tag.timestamp < MaxDt

\* C16: bytes_loaded() and bytes_total() both equal the number of bytes given
\* to load_buffer so far; no step changes or removes a byte already in the
\* buffer (the old buffer is a prefix of the new one); and a load_buffer call
\* changes no field of the stream other than buffer, nor the play set or the
\* backend.
C16_BufferAppendOnly ==
    [][\A s \in Streams :
          /\ bytes_loaded(data[s]) = appended[s]
          /\ bytes_loaded(data'[s]) = appended'[s]
          /\ bytes_total(data'[s]) = appended'[s]
          /\ IsPrefix(data[s].buffer, data'[s].buffer)
          /\ appended'[s] # appended[s] =>
                 /\ data'[s] = [data[s] EXCEPT !.buffer = data'[s].buffer]
                 /\ video' = video
                 /\ playing_streams' = playing_streams]_vars

\* The loader has just appended to a stream that was loaded before in more
\* than one call and ticked past its header in between.
C16_Witness ==
    \E s \in Streams :
        /\ ran = <<>>
        /\ appended[s] > HeaderLen + MaxChunk
        /\ data[s].offset > HeaderLen
        /\ bytes_loaded(data[s]) > data[s].preload_offset

\* The tags a tick step consumed on s, in order.
Consumed(s) ==
    TagsBetween(data[s].buffer, Sniff(data[s]).data.offset, data'[s].offset)

\* Where the last of the consumed tags starts.
LastStart(s) ==
    LET tags == Consumed(s)
    IN IF Len(tags) = 1 THEN Sniff(data[s]).data.offset
       ELSE tags[Len(tags) - 1].position

\* The tick of the step on s, had the buffer ended where the last consumed
\* tag starts.
BeforeLast(s) ==
    Tick([data[s] EXCEPT !.buffer = SubSeq(@, 1, LastStart(s))], video, s, ticked'[s])

\* C17: when the last tag a tick consumes is a video tag whose codec id does
\* not resolve, that tag adds no backend call (no preload, no decode) and
\* leaves last_decoded_bitmap and the handle as the tags before it left them;
\* the frame counter is one more and offset is past the tag.
C17_UnknownCodecSkipped ==
    [][\A s \in Streams :
          (TickOf(s) /\ Sniff(data[s]).go /\ Consumed(s) # <<>>) =>
              LET tag == Consumed(s)[Len(Consumed(s))]
                  before == BeforeLast(s)
              IN (tag.data.kind = "Video" /\ VideoCodec_from_u8(tag.data.codec_id) = None) =>
                     /\ CallsIn(video', s) = CallsIn(before.video, s)
                     /\ data'[s].last_decoded_bitmap = before.data.last_decoded_bitmap
                     /\ Format(s)'.stream = before.data.stream_type[1].stream
                     /\ Format(s)'.frame_id = before.data.stream_type[1].frame_id + 1
                     /\ before.data.offset = LastStart(s)
                     /\ data'[s].offset = tag.position
                     /\ data'[s].offset > LastStart(s)]_vars

\* After a tick: a stream is registered, a frame was decoded, and the last
\* consumed tag is a frame of an unknown codec: two frames counted, one
\* decoded, the picture still that of the first.
C17_Witness ==
    \E s \in Streams :
        /\ ticked[s] >= 0
        /\ Sniffed(s)
        /\ LET tags == TagsBetween(data[s].buffer, HeaderLen, data[s].offset)
           IN /\ Len(tags) = 3
              /\ tags[3].data.kind = "Video"
              /\ VideoCodec_from_u8(tags[3].data.codec_id) = None
        /\ Format(s).stream # None
        /\ Format(s).frame_id = 2
        /\ Len(CallsOf(s, "decode")) = 1
        /\ data[s].last_decoded_bitmap # None
        /\ data[s].last_decoded_bitmap[1].frame_id = 0

\* The metadata a script tag carries asks for a registration: it is named
\* onMetaData, all five numbers are there, and the codec id resolves.
AsksRegistration(tag) ==
    /\ tag.data.kind = "Script"
    /\ tag.data.name = NAME_ON_META_DATA
    /\ \A key \in {KEY_WIDTH, KEY_HEIGHT, KEY_VIDEOCODECID, KEY_FRAMERATE, KEY_DURATION} :
           SubvarNumber(tag.data.subvars, key) # None
    /\ VideoCodec_from_u8(SubvarNumber(tag.data.subvars, KEY_VIDEOCODECID)[1]) # None

\* The frame a video tag carries is a raw frame of a codec that resolves.
RawFrame(tag) ==
    /\ tag.data.kind = "Video"
    /\ tag.data.packet = "Data"
    /\ VideoCodec_from_u8(tag.data.codec_id) # None

\* What a backend call was about, without the handle.
About(c) == [fn |-> c.fn, codec |-> c.codec, data |-> c.data, frame_id |-> c.frame_id,
             ok |-> c.ok]

\* The backend calls that tags[i ..], each dispatched once and as never
\* parsed before, are to cause on a stream that is `registered` or not and
\* has counted frame_id video tags.
RECURSIVE ExpectedCalls(_, _, _, _)
ExpectedCalls(tags, i, registered, frame_id) ==
    IF i > Len(tags) THEN <<>>
    ELSE LET tag == tags[i]
             sub(key) == SubvarNumber(tag.data.subvars, key)[1]
         IN IF tag.data.kind = "Script"
            THEN IF ~registered /\ AsksRegistration(tag)
                 THEN LET size == <<sub(KEY_WIDTH), sub(KEY_HEIGHT)>>
                      IN <<[fn |-> "register", codec |-> sub(KEY_VIDEOCODECID),
                            data |-> <<sub(KEY_FRAMERATE) * sub(KEY_DURATION),
                                       size[1], size[2]>>,
                            frame_id |-> 0, ok |-> RegisterAccepts(size)]>>
                         \o ExpectedCalls(tags, i + 1, RegisterAccepts(size), frame_id)
                 ELSE ExpectedCalls(tags, i + 1, registered, frame_id)
            ELSE IF tag.data.kind = "Video"
            THEN (IF registered /\ RawFrame(tag)
                  THEN <<[fn |-> "preload", codec |-> tag.data.codec_id,
                          data |-> tag.data.data, frame_id |-> frame_id,
                          ok |-> PreloadAccepts(tag.data.data)],
                         [fn |-> "decode", codec |-> tag.data.codec_id,
                          data |-> tag.data.data, frame_id |-> frame_id,
                          ok |-> DecodeAccepts(tag.data.data)]>>
                  ELSE <<>>)
                 \o ExpectedCalls(tags, i + 1, registered, frame_id + 1)
            ELSE ExpectedCalls(tags, i + 1, registered, frame_id)

\* The tags the stream has consumed since its header.
ConsumedSoFar(s) == TagsBetween(data[s].buffer, HeaderLen, data[s].offset)

IsFrameCall(c) == c.fn \in {"preload", "decode"}

\* The backend calls of s about frames, in order, without the handle.
FrameCalls(s) ==
    LET calls == SelectSeq(CallsBy(s), IsFrameCall)
    IN [i \in 1 .. Len(calls) |-> About(calls[i])]

\* C18: the calls about frames a stream has made are, tag by tag in buffer
\* order, for every consumed raw frame of a resolved codec that came with a
\* stream registered: one preload with (codec, data, frame counter), then at
\* once the decode with the same (codec, data, frame counter), whether or
\* not the preload succeeded, on the registered handle; and last_decoded_bitmap
\* is the picture of the last decode that succeeded, None when none did.
C18_PreloadThenDecode ==
    \A s \in Streams :
        Sniffed(s) =>
            LET calls == CallsBy(s)
                decoded == SelectSeq(CallsOf(s, "decode"), LAMBDA c : c.ok)
            IN /\ FrameCalls(s)
                      = SelectSeq(ExpectedCalls(ConsumedSoFar(s), 1, FALSE, 0), IsFrameCall)
               /\ \A i \in 1 .. Len(calls) :
                      /\ calls[i].fn = "preload" =>
                             /\ i < Len(calls)
                             /\ calls[i + 1] = [calls[i] EXCEPT !.fn = "decode",
                                                    !.ok = DecodeAccepts(calls[i].data)]
                      /\ calls[i].fn = "decode" =>
                             /\ i > 1
                             /\ calls[i - 1].fn = "preload"
                             /\ calls[i].handle = Format(s).stream[1]
               /\ data[s].last_decoded_bitmap =
                      IF decoded = <<>> THEN None
                      ELSE LET c == decoded[Len(decoded)]
                           IN Some([handle |-> c.handle, frame_id |-> c.frame_id,
                                    data |-> c.data])

\* After a tick: the first frame was decoded, the second could not be
\* preloaded and was decoded all the same, and its picture is the last one.
C18_Witness ==
    \E s \in Streams :
        /\ ticked[s] >= 0
        /\ Sniffed(s)
        /\ LET frames == SelectSeq(CallsBy(s), IsFrameCall)
           IN /\ Len(frames) = 4
              /\ frames[1].ok /\ frames[2].ok
              /\ frames[3].fn = "preload" /\ ~frames[3].ok
              /\ frames[4].fn = "decode" /\ frames[4].ok
              /\ data[s].last_decoded_bitmap = Some([handle |-> frames[4].handle,
                                                      frame_id |-> 1,
                                                      data |-> UnpreloadableFrame])

IsRegisterCall(c) == c.fn = "register"

\* C20: the registrations a stream has requested are, tag by tag in buffer
\* order, those of the consumed script tags that came with no handle
\* registered, are named onMetaData, carry all five numbers and name a codec
\* that resolves, and no others; the handle is the one the backend returned
\* for the request that succeeded and is unset while none has (unknown codec:
\* no request; backend error: request without a handle); and a tick with any
\* dt consumes every such tag up to the first tag that does not parse or is
\* not due.
C20_RegistrationConditions ==
    \A s \in Streams :
        Sniffed(s) =>
            LET regs == CallsOf(s, "register")
                granted == SelectSeq(regs, LAMBDA c : c.ok)
            IN /\ [i \in 1 .. Len(regs) |-> About(regs[i])]
                      = SelectSeq(ExpectedCalls(ConsumedSoFar(s), 1, FALSE, 0), IsRegisterCall)
               /\ Format(s).stream = IF granted = <<>> THEN None ELSE Some(granted[1].handle)
               /\ Len(granted) <= 1
               /\ \A dt \in DtValues :
                      Tick(data[s], video, s, dt).data.offset
                          = StopPosition(data[s].buffer, data[s].offset,
                                         data[s].stream_time + dt)

\* After a tick, three metadata records are consumed: one naming an unknown
\* codec (no request), one the backend refused (a request, no handle) and one
\* it accepted (the second request, which set the handle).
C20_Witness ==
    \E s \in Streams :
        /\ ticked[s] >= 0
        /\ Sniffed(s)
        /\ LET tags == ConsumedSoFar(s)
           IN /\ Len(tags) = 3
              /\ ~AsksRegistration(tags[1])
              /\ tags[1].data.name = NAME_ON_META_DATA
              /\ SubvarNumber(tags[1].data.subvars, KEY_DURATION) # None
        /\ LET regs == CallsOf(s, "register")
           IN /\ Len(regs) = 2
              /\ ~regs[1].ok
              /\ regs[2].ok
              /\ Format(s).stream = Some(regs[2].handle)

\* How many of the first k tags are video tags.
VideoTagsAmong(tags, k) ==
    Cardinality({i \in 1 .. k : tags[i].data.kind = "Video"})

\* The index of the tag that got the stream its handle: the first metadata
\* that asks for a registration the backend grants; past the end when none.
GrantedAt(tags) ==
    LET granted(i) ==
            /\ AsksRegistration(tags[i])
            /\ RegisterAccepts(<<SubvarNumber(tags[i].data.subvars, KEY_WIDTH)[1],
                                 SubvarNumber(tags[i].data.subvars, KEY_HEIGHT)[1]>>)
        at == {i \in 1 .. Len(tags) : granted(i)}
    IN IF at = {} THEN Len(tags) + 1
       ELSE CHOOSE i \in at : \A j \in at : i <= j

\* The video tags among the consumed tags that came while no handle was
\* registered: those before the tag that got the stream its handle.
DroppedFrames(tags) ==
    {i \in 1 .. Len(tags) : i < GrantedAt(tags) /\ tags[i].data.kind = "Video"}

\* In every state: no call about a frame carries the frame counter of a
\* video tag consumed without a handle, and the first frame a handle receives
\* carries the number of video tags consumed before the tag of that frame.
C21_NeverSubmitted ==
    \A s \in Streams :
        Sniffed(s) =>
            LET tags == ConsumedSoFar(s)
                frames == SelectSeq(CallsBy(s), IsFrameCall)
                raw == {i \in 1 .. Len(tags) : i > GrantedAt(tags) /\ RawFrame(tags[i])}
            IN /\ \A i \in DroppedFrames(tags) :
                      \A k \in 1 .. Len(frames) :
                          frames[k].frame_id # VideoTagsAmong(tags, i - 1)
               /\ Format(s).frame_id >= Cardinality(DroppedFrames(tags))
               /\ (frames = <<>>) = (raw = {})
               /\ frames # <<>> =>
                      LET first == CHOOSE i \in raw : \A j \in raw : i <= j
                      IN /\ frames[1].frame_id = VideoTagsAmong(tags, first - 1)
                         /\ frames[1].frame_id >= Cardinality(DroppedFrames(tags))
                         /\ frames[1].data = tags[first].data.data
                         /\ frames[1].handle = Format(s).stream[1]

\* A tick whose last consumed tag is a video tag that came with no handle
\* registered: the tag adds no backend call, the stream has made no preload
\* or decode call at all, there is no picture, the frame counter is one more
\* and offset is past the tag.
C21_DroppedStep ==
    \A s \in Streams :
        (TickOf(s) /\ data'[s].offset > Max(data[s].offset, HeaderLen)) =>
            LET start == Sniff(data[s]).data.offset
                dropped(tags) ==
                    LET tag == tags[Len(tags)]
                        last == IF Len(tags) = 1 THEN start
                                ELSE tags[Len(tags) - 1].position
                        step(before) ==
                            (tag.data.kind = "Video"
                                 /\ before.data.stream_type[1].stream = None) =>
                                /\ CallsIn(video', s) = CallsIn(before.video, s)
                                /\ SelectSeq(CallsIn(video', s), IsFrameCall) = <<>>
                                /\ data'[s].last_decoded_bitmap = None
                                /\ Format(s)'.stream = None
                                /\ Format(s)'.frame_id
                                       = before.data.stream_type[1].frame_id + 1
                                /\ before.data.offset = last
                                /\ data'[s].offset = tag.position
                                /\ data'[s].offset > last
                    IN /\ tags # <<>>
                       /\ Bind(Tick([data[s] EXCEPT !.buffer = SubSeq(@, 1, last)],
                                    video, s, ticked'[s]), step)
            IN Bind(TagsBetween(data[s].buffer, start, data'[s].offset), dropped)

\* C21: a video tag processed while no backend handle is registered is
\* consumed (offset moves past it, the frame counter is one more) with no
\* preload and no decode call; no later state, also after a handle is
\* registered, holds a call that submitted that tag's frame; and the first
\* frame_id a handle receives is the number of video tags processed before
\* the tag of that frame, the dropped ones included.
C21_VideoBeforeMetadataDropped ==
    /\ []C21_NeverSubmitted
    /\ [][C21_DroppedStep]_vars

\* After a tick: a frame came first and was dropped, the metadata after it
\* registered the stream, and the frame after that was preloaded and decoded
\* under frame_id 1; nothing was submitted under frame_id 0.
C21_Witness ==
    \E s \in Streams :
        /\ ticked[s] >= 0
        /\ Sniffed(s)
        /\ LET tags == ConsumedSoFar(s)
           IN /\ Len(tags) = 3
              /\ RawFrame(tags[1])
              /\ GrantedAt(tags) = 2
              /\ RawFrame(tags[3])
        /\ Format(s).stream # None
        /\ Format(s).frame_id = 2
        /\ LET frames == SelectSeq(CallsBy(s), IsFrameCall)
           IN /\ Len(frames) = 2
              /\ \A k \in 1 .. 2 : frames[k].frame_id = 1

\* The position is the end of the header or the end of one of the whole tags
\* that follow the header one after another.
OnTagBoundary(buffer, position) ==
    \/ position = HeaderLen
    \/ LET tags == TagsBetween(buffer, HeaderLen, position)
       IN tags # <<>> /\ tags[Len(tags)].position = position

\* C22: in every reachable state offset <= preload_offset and both are at
\* most the buffer length; while the format is set, offset = preload_offset
\* and offset is on a tag boundary (the end of the header or the end of a
\* consumed tag); while the format is unset, offset = 0 and preload_offset is
\* 0 or 3.
C22_CursorOrdering ==
    \A s \in Streams :
        LET w == data[s]
        IN /\ w.offset <= w.preload_offset
           /\ w.preload_offset <= Len(w.buffer)
           /\ w.stream_type # None =>
                  /\ w.offset = w.preload_offset
                  /\ FlvHeader_parse(w.buffer, 0).ok
                  /\ OnTagBoundary(w.buffer, w.offset)
           /\ w.stream_type = None =>
                  /\ w.offset = 0
                  /\ w.preload_offset \in {0, 3}

\* After a tick: two tags are consumed and the cursors stand together at the
\* end of the second, before bytes of the buffer that are no whole tag.
C22_Witness ==
    \E s \in Streams :
        /\ ticked[s] >= 0
        /\ Sniffed(s)
        /\ Len(ConsumedSoFar(s)) = 2
        /\ data[s].offset = data[s].preload_offset
        /\ data[s].offset < Len(data[s].buffer)
        /\ ~FlvTag_parse(data[s].buffer, data[s].offset).ok

====
